---- MODULE Spec2Model ----
(***************************************************************************)
(* Model of cnpv.py: the census ingestion pipeline                         *)
(*   CreateProcessedDataframe -> ReadDataFolder -> ReadZippedStataData     *)
(*   -> MapDataframeName / ReadStataData -> CleanDataframe, followed by    *)
(*   the label substitution df.replace(GetValueLabels(...)).               *)
(*                                                                         *)
(* Strings that the code takes apart (file names, archive entry names,     *)
(* column names) are sequences of one-character strings.  Strings that the *)
(* code only compares (record type keys, schema identifiers) are TLA+      *)
(* strings.  A cell of a table is a pair <<kind, payload>>:                *)
(*   <<"float", k>>  the 64-bit float k/2   (k odd: not an integer)        *)
(*   <<"nan", 0>>    the float NaN (missing value of a float column)       *)
(*   <<"int", n>>    the integer n                                         *)
(*   <<"NA", 0>>     the null of a nullable column (pd.NA)                 *)
(*   <<"str", s>>    the text s                                            *)
(***************************************************************************)
EXTENDS Integers, Sequences, FiniteSets, Bags, TLC

VARIABLES
    pc,                 \* position of the run
    folder,             \* folder_path: entry name -> archive content
    pending,            \* entries of the glob generator not yet visited
    dfs,                \* the mapping of tables being built / relabelled
    decoded,            \* log: what ReadZippedStataData returned, per visited path
    aggregated,         \* log: the mapping ReadDataFolder returned
    dictionary_parser,  \* parsed dictionary: schema identifier -> value labels
    todo,               \* rest of the dfs.items() iteration in CreateProcessedDataframe
    calls,              \* log: lookups invoked, <<function name, argument>>
    returned,           \* mapping handed back to the caller (NoValue before / on error)
    raised,             \* exception that left the run ("none" if none)
    updateDtype,        \* how DataFrame.update of the installed pandas writes back
    segments,           \* the underscore-free pieces filename was built from
    filename,           \* argument of MapDataframeName
    dataframe_name,     \* outcome of MapDataframeName(filename)
    record_name,        \* argument of MapRecordName
    schema_name,        \* outcome of MapRecordName(record_name)
    df,                 \* argument of CleanDataframe
    clean1,             \* outcome of CleanDataframe(df)
    clean2              \* outcome of CleanDataframe(CleanDataframe(df))

vars == <<pc, folder, pending, dfs, decoded, aggregated, dictionary_parser, todo,
          calls, returned, raised, updateDtype, segments, filename, dataframe_name,
          record_name, schema_name, df, clean1, clean2>>

pipelineVars == <<folder, pending, dfs, decoded, aggregated, dictionary_parser,
                  todo, calls, returned, raised>>
mapVars == <<segments, filename, dataframe_name, record_name, schema_name>>
cleanVars == <<df, clean1, clean2>>

----------------------------------------------------------------------------
(* Bounds *)

MaxSegments == 3      \* underscore-delimited segments of a generated file name
MaxTerritories == 2   \* entries of the folder that match the glob pattern
MaxColumns == 2       \* columns of a table given to CleanDataframe
MaxRows == 2          \* rows of a table given to CleanDataframe

----------------------------------------------------------------------------
(* Python string primitives on sequences of characters *)

\* s.split(sep): the list of maximal sep-free pieces, empty pieces included
RECURSIVE SplitFrom(_, _, _, _)
SplitFrom(s, sep, i, cur) ==
    IF i > Len(s) THEN <<cur>>
    ELSE IF s[i] = sep THEN <<cur>> \o SplitFrom(s, sep, i + 1, <<>>)
    ELSE SplitFrom(s, sep, i + 1, Append(cur, s[i]))

Split(s, sep) == SplitFrom(s, sep, 1, <<>>)

\* sep.join(parts), used to build file names from their segments
RECURSIVE Join(_, _)
Join(parts, sep) ==
    IF Len(parts) = 0 THEN <<>>
    ELSE IF Len(parts) = 1 THEN parts[1]
    ELSE parts[1] \o <<sep>> \o Join(Tail(parts), sep)

\* The characters of the model are those of U+0020..U+00FF other than the
\* two whose upper-case form lies beyond U+00FF (the micro sign and y with
\* diaeresis).  LowerTable pairs each character that str.lower changes with
\* the character it becomes, UpperTable each character that str.upper changes
\* with the characters it becomes: the upper-case form of the sharp s has two.
LowerTable ==
    {<<"A", "a">>, <<"B", "b">>, <<"C", "c">>, <<"D", "d">>, <<"E", "e">>,
     <<"F", "f">>, <<"G", "g">>, <<"H", "h">>, <<"I", "i">>, <<"J", "j">>,
     <<"K", "k">>, <<"L", "l">>, <<"M", "m">>, <<"N", "n">>, <<"O", "o">>,
     <<"P", "p">>, <<"Q", "q">>, <<"R", "r">>, <<"S", "s">>, <<"T", "t">>,
     <<"U", "u">>, <<"V", "v">>, <<"W", "w">>, <<"X", "x">>, <<"Y", "y">>,
     <<"Z", "z">>, <<"À", "à">>, <<"Á", "á">>, <<"Â", "â">>, <<"Ã", "ã">>,
     <<"Ä", "ä">>, <<"Å", "å">>, <<"Æ", "æ">>, <<"Ç", "ç">>, <<"È", "è">>,
     <<"É", "é">>, <<"Ê", "ê">>, <<"Ë", "ë">>, <<"Ì", "ì">>, <<"Í", "í">>,
     <<"Î", "î">>, <<"Ï", "ï">>, <<"Ð", "ð">>, <<"Ñ", "ñ">>, <<"Ò", "ò">>,
     <<"Ó", "ó">>, <<"Ô", "ô">>, <<"Õ", "õ">>, <<"Ö", "ö">>, <<"Ø", "ø">>,
     <<"Ù", "ù">>, <<"Ú", "ú">>, <<"Û", "û">>, <<"Ü", "ü">>, <<"Ý", "ý">>,
     <<"Þ", "þ">>}

UpperTable ==
    {<<"a", <<"A">>>>, <<"b", <<"B">>>>, <<"c", <<"C">>>>, <<"d", <<"D">>>>,
     <<"e", <<"E">>>>, <<"f", <<"F">>>>, <<"g", <<"G">>>>, <<"h", <<"H">>>>,
     <<"i", <<"I">>>>, <<"j", <<"J">>>>, <<"k", <<"K">>>>, <<"l", <<"L">>>>,
     <<"m", <<"M">>>>, <<"n", <<"N">>>>, <<"o", <<"O">>>>, <<"p", <<"P">>>>,
     <<"q", <<"Q">>>>, <<"r", <<"R">>>>, <<"s", <<"S">>>>, <<"t", <<"T">>>>,
     <<"u", <<"U">>>>, <<"v", <<"V">>>>, <<"w", <<"W">>>>, <<"x", <<"X">>>>,
     <<"y", <<"Y">>>>, <<"z", <<"Z">>>>, <<"ß", <<"S", "S">>>>,
     <<"à", <<"À">>>>, <<"á", <<"Á">>>>, <<"â", <<"Â">>>>, <<"ã", <<"Ã">>>>,
     <<"ä", <<"Ä">>>>, <<"å", <<"Å">>>>, <<"æ", <<"Æ">>>>, <<"ç", <<"Ç">>>>,
     <<"è", <<"È">>>>, <<"é", <<"É">>>>, <<"ê", <<"Ê">>>>, <<"ë", <<"Ë">>>>,
     <<"ì", <<"Ì">>>>, <<"í", <<"Í">>>>, <<"î", <<"Î">>>>, <<"ï", <<"Ï">>>>,
     <<"ð", <<"Ð">>>>, <<"ñ", <<"Ñ">>>>, <<"ò", <<"Ò">>>>, <<"ó", <<"Ó">>>>,
     <<"ô", <<"Ô">>>>, <<"õ", <<"Õ">>>>, <<"ö", <<"Ö">>>>, <<"ø", <<"Ø">>>>,
     <<"ù", <<"Ù">>>>, <<"ú", <<"Ú">>>>, <<"û", <<"Û">>>>, <<"ü", <<"Ü">>>>,
     <<"ý", <<"Ý">>>>, <<"þ", <<"Þ">>>>}

ToLower ==
    [c \in {p[1] : p \in LowerTable} |-> (CHOOSE p \in LowerTable : p[1] = c)[2]]

ToUpper ==
    [c \in {p[1] : p \in UpperTable} |-> (CHOOSE p \in UpperTable : p[1] = c)[2]]

\* str.lower / str.upper of a one-character string
LowerChar(c) == IF c \in DOMAIN ToLower THEN ToLower[c] ELSE c

UpperChar(c) == IF c \in DOMAIN ToUpper THEN ToUpper[c] ELSE <<c>>

\* str.lower / str.upper
Lower(s) == [i \in 1..Len(s) |-> LowerChar(s[i])]

RECURSIVE Upper(_)
Upper(s) == IF Len(s) = 0 THEN <<>> ELSE UpperChar(s[1]) \o Upper(Tail(s))

\* str.endswith
EndsWith(s, suffix) ==
    /\ Len(s) >= Len(suffix)
    /\ SubSeq(s, Len(s) - Len(suffix) + 1, Len(s)) = suffix

----------------------------------------------------------------------------
(* Record Type Mapper *)

VIV == <<"1","V","I","V">>
HOG == <<"2","H","O","G">>
FALL == <<"3","F","A","L","L">>
PER == <<"5","P","E","R">>
MGN == <<"M","G","N">>

RecordTypes == {"viviendas", "hogares", "fallecidos", "personas",
                "marco_georreferenciacion"}

\* a mapping of tables that has not been returned
NoValue == <<>>

HasValue(m) == DOMAIN m # {}

\* outcome of a lookup: the value, or the exception that left the function
Ok(v) == [raised |-> "none", value |-> v]
Raise(e) == [raised |-> e, value |-> "none"]

\* variant of the table with an entry for the georeference frame
MapRecordName_georef ==
    ("viviendas" :> "REGVIV") @@ ("hogares" :> "REGHOG") @@
    ("fallecidos" :> "REGFALL") @@ ("personas" :> "REGPER") @@
    ("marco_georreferenciacion" :> "REGMGN")

\* name_dict of MapRecordName
MapRecordName_dict ==
    ("viviendas" :> "REGVIV") @@ ("hogares" :> "REGHOG") @@
    ("fallecidos" :> "REGFALL") @@ ("personas" :> "REGPER")

MapRecordName(name) ==
    IF name \in DOMAIN MapRecordName_dict
    THEN Ok(MapRecordName_dict[name])
    ELSE Raise("KeyError")

\* name_dict of MapDataframeName
MapDataframeName_dict ==
    (VIV :> "viviendas") @@ (HOG :> "hogares") @@ (FALL :> "fallecidos") @@
    (PER :> "personas") @@ (MGN :> "marco_georreferenciacion")

\* variant reading the first segment instead of the second
MapDataframeName_first(f) ==
    LET parts == Split(f, "_")
    IN  IF parts[1] \in DOMAIN MapDataframeName_dict
        THEN Ok(MapDataframeName_dict[parts[1]])
        ELSE Raise("KeyError")

MapDataframeName(f) ==
    LET parts == Split(f, "_")
    IN  IF Len(parts) < 2 THEN Raise("IndexError")
        ELSE IF parts[2] \in DOMAIN MapDataframeName_dict
        THEN Ok(MapDataframeName_dict[parts[2]])
        ELSE Raise("KeyError")

----------------------------------------------------------------------------
(* Tables.  A DataFrame is a sequence of columns, each a record            *)
(*   [name |-> characters, dtype |-> string, values |-> sequence of cells] *)
(* with all columns of one frame of the same length.  pd.DataFrame() is    *)
(* the frame without columns.                                              *)

NaN == <<"nan", 0>>
NA == <<"NA", 0>>

EmptyFrame == <<>>

\* the dict literal at the head of ReadDataFolder
EmptyTables == [k \in RecordTypes |-> EmptyFrame]

NRows(t) == IF Len(t) = 0 THEN 0 ELSE Len(t[1].values)

IsMissing(c) == c[1] \in {"nan", "NA"}

\* a float cell that holds an integer value
IsIntegral(c) == c[1] = "float" /\ c[2] % 2 = 0

\* Series.astype("Int64") on one cell of a float64 column
AsInt64(c) == IF IsMissing(c) THEN NA ELSE <<"int", c[2] \div 2>>

\* astype("Int64") refuses a float that is not an integer
CanCastInt64(col) ==
    \A i \in 1..Len(col.values) : IsMissing(col.values[i]) \/ IsIntegral(col.values[i])

\* what df.update(clean_df) leaves in one float64 column: positions where the
\* converted column is null keep the old cell, the others take the converted
\* value; a converted column that is all null is skipped.  The column is
\* written back through the existing frame, and the dtype that results is
\* the one of the installed pandas (mode): "object" (a new object column of
\* integers and NaN), "float64" (stored into the float column) or "Float64"
\* (the common masked type of float64 and Int64).
UpdateColumn(col, mode) ==
    LET that == [i \in 1..Len(col.values) |-> AsInt64(col.values[i])]
        allNull == \A i \in 1..Len(that) : IsMissing(that[i])
    IN  IF allNull THEN col
        ELSE IF mode = "object" THEN
            [col EXCEPT !.dtype = "object",
                        !.values = [i \in 1..Len(that) |->
                            IF IsMissing(that[i]) THEN col.values[i] ELSE that[i]]]
        ELSE IF mode = "float64" THEN col
        ELSE
            [col EXCEPT !.dtype = "Float64",
                        !.values = [i \in 1..Len(that) |->
                            IF IsMissing(that[i]) THEN NA ELSE col.values[i]]]

\* variant of the renaming: swaps the case of every letter
RECURSIVE SwapCase(_)
SwapCase(s) ==
    IF Len(s) = 0 THEN <<>>
    ELSE (IF UpperChar(s[1]) = <<s[1]>> THEN <<LowerChar(s[1])>> ELSE UpperChar(s[1]))
         \o SwapCase(Tail(s))

\* map(str.upper, df.columns) on one name
RenameColumn(s) == Upper(s)

CleanDataframe(t, mode) ==
    IF \E j \in 1..Len(t) : t[j].dtype = "float64" /\ ~CanCastInt64(t[j])
    THEN Raise("TypeError")
    ELSE Ok([j \in 1..Len(t) |->
              LET col == IF t[j].dtype = "float64" THEN UpdateColumn(t[j], mode)
                         ELSE t[j]
              IN  [col EXCEPT !.name = RenameColumn(col.name)]])

\* pd.read_stata followed by CleanDataframe
ReadStataData(data, mode) == CleanDataframe(data, mode)

----------------------------------------------------------------------------
(* Archive Decoder.  What lies at a path is                                *)
(*   [kind |-> "zip" (a zip archive), "file" (another file) or "dir",      *)
(*    entries |-> sequence of [name, zip, files]]                          *)
(* where zip tells whether the bytes of the entry are a zip archive and    *)
(* files is its namelist, each                                             *)
(*   [name |-> file name, data |-> the frame pd.read_stata decodes].       *)

DTA_ZIP == <<"d","t","a",".","z","i","p">>

\* the list comprehension building dta_archive_list: the names kept
RECURSIVE dta_archive_list(_)
dta_archive_list(entries) ==
    IF Len(entries) = 0 THEN <<>>
    ELSE IF EndsWith(Lower(entries[1].name), DTA_ZIP)
    THEN <<entries[1].name>> \o dta_archive_list(Tail(entries))
    ELSE dta_archive_list(Tail(entries))

\* namelist(): the names of the members, in order
namelist(entries) == [e \in 1..Len(entries) |-> entries[e].name]

\* data_archive.open(filename) and dta_archive.open(filename): the member the
\* name stands for, which is the last one when several members carry the name
OpenEntry(entries, name) ==
    entries[CHOOSE e \in 1..Len(entries) :
                /\ entries[e].name = name
                /\ \A l \in (e + 1)..Len(entries) : entries[l].name # name]

\* the inner loop: map the name, open the member of that name, decode and
\* clean it, store the frame under the record type
RECURSIVE DecodeFiles(_, _, _, _)
DecodeFiles(dta_file_list, files, df_dictionary, mode) ==
    IF Len(dta_file_list) = 0 THEN Ok(df_dictionary)
    ELSE LET name == MapDataframeName(dta_file_list[1])
             frame == ReadStataData(OpenEntry(files, dta_file_list[1]).data, mode)
         IN  IF name.raised # "none" THEN Raise(name.raised)
             ELSE IF frame.raised # "none" THEN Raise(frame.raised)
             ELSE DecodeFiles(Tail(dta_file_list), files,
                      (name.value :> frame.value) @@ df_dictionary, mode)

\* the outer loop: open each kept name as a nested archive and decode its files
RECURSIVE DecodeEntries(_, _, _, _)
DecodeEntries(names, entries, df_dictionary, mode) ==
    IF Len(names) = 0 THEN Ok(df_dictionary)
    ELSE LET nested == OpenEntry(entries, names[1])
             done == DecodeFiles(namelist(nested.files), nested.files,
                                 df_dictionary, mode)
         IN  IF ~nested.zip THEN Raise("BadZipFile")
             ELSE IF done.raised # "none" THEN done
             ELSE DecodeEntries(Tail(names), entries, done.value, mode)

\* variant that starts from a mapping holding all five keys
ReadZippedStataData_seeded(archive, mode) ==
    IF archive.kind = "dir" THEN Raise("IsADirectoryError")
    ELSE IF archive.kind # "zip" THEN Raise("BadZipFile")
    ELSE DecodeEntries(dta_archive_list(archive.entries), archive.entries,
                       EmptyTables, mode)

ReadZippedStataData(archive, mode) ==
    IF archive.kind = "dir" THEN Raise("IsADirectoryError")
    ELSE IF archive.kind # "zip" THEN Raise("BadZipFile")
    ELSE DecodeEntries(dta_archive_list(archive.entries), archive.entries,
                       <<>>, mode)

----------------------------------------------------------------------------
(* Folder Aggregator *)

Digits == {"0","1","2","3","4","5","6","7","8","9"}

\* variant of the pattern that asks for one digit only
GlobMatch_loose(name) ==
    /\ Len(name) >= 2
    /\ name[1] \in Digits
    /\ name[2] \in Digits \cup {"_"}

\* Path.glob("**/[0-9][0-9]_*") on the name of a folder entry
GlobMatch(name) ==
    /\ Len(name) >= 3
    /\ name[1] \in Digits
    /\ name[2] \in Digits
    /\ name[3] = "_"

\* the keys of dfs in the order the dict holds them
KeyOrder == <<"viviendas", "hogares", "fallecidos", "personas",
              "marco_georreferenciacion">>

HasColumn(t, nm) == \E j \in 1..Len(t) : t[j].name = nm

ColumnOf(t, nm) == t[CHOOSE j \in 1..Len(t) : t[j].name = nm]

Fill(n) == [i \in 1..n |-> NaN]

\* the columns of b that a does not have, in b's order
RECURSIVE NewColumns(_, _)
NewColumns(a, b) ==
    IF Len(b) = 0 THEN <<>>
    ELSE IF HasColumn(a, b[1].name) THEN NewColumns(a, Tail(b))
    ELSE <<b[1]>> \o NewColumns(a, Tail(b))

\* variant that keeps only the newly decoded table
Concat_latest(a, b) == a

\* pd.concat([a, b]): the rows of a followed by the rows of b, over the
\* union of the columns; a column missing on one side is filled with NaN
Concat(a, b) ==
    LET extra == NewColumns(a, b)
    IN  [j \in 1..Len(a) |->
            IF HasColumn(b, a[j].name)
            THEN LET other == ColumnOf(b, a[j].name)
                 IN  [name |-> a[j].name,
                      dtype |-> IF other.dtype = a[j].dtype THEN a[j].dtype
                                ELSE "object",
                      values |-> a[j].values \o other.values]
            ELSE [name |-> a[j].name,
                  dtype |-> IF NRows(b) = 0 THEN a[j].dtype ELSE "object",
                  values |-> a[j].values \o Fill(NRows(b))]]
        \o
        [j \in 1..Len(extra) |->
            [name |-> extra[j].name,
             dtype |-> IF NRows(a) = 0 THEN extra[j].dtype ELSE "object",
             values |-> Fill(NRows(a)) \o extra[j].values]]

\* position of a key in the iteration over dfs
KeyIndex(key) == CHOOSE n \in 1..Len(KeyOrder) : KeyOrder[n] = key

\* the loop `for key in dfs` up to and including position n
ConcatKeys(acc, current_dfs, n) ==
    [key \in DOMAIN acc |->
        IF KeyIndex(key) <= n THEN Concat(current_dfs[key], acc[key])
        ELSE acc[key]]

\* keys of dfs that precede the first one current_dfs lacks
KeysBeforeMissing(current_dfs) ==
    IF \A n \in 1..Len(KeyOrder) : KeyOrder[n] \in DOMAIN current_dfs
    THEN Len(KeyOrder)
    ELSE (CHOOSE n \in 1..Len(KeyOrder) :
            /\ KeyOrder[n] \notin DOMAIN current_dfs
            /\ \A m \in 1..(n - 1) : KeyOrder[m] \in DOMAIN current_dfs) - 1

----------------------------------------------------------------------------
(* Label Substitutor *)

IsNum(c) == c[1] \in {"int", "float"}

\* numeric value of a cell, in halves
Halves(c) == IF c[1] = "int" THEN 2 * c[2] ELSE c[2]

\* whether df.replace takes the key for the cell: numbers by value
\* (1 == 1.0), anything else when identical
Matches(key, cell) ==
    IF IsNum(key) /\ IsNum(cell) THEN Halves(key) = Halves(cell)
    ELSE key = cell

ReplaceCell(cell, labels) ==
    IF \E key \in DOMAIN labels : Matches(key, cell)
    THEN labels[CHOOSE key \in DOMAIN labels : Matches(key, cell)]
    ELSE cell

ReplaceColumn(col, labels) ==
    LET new == [i \in 1..Len(col.values) |-> ReplaceCell(col.values[i], labels)]
    IN  [col EXCEPT !.values = new,
                    !.dtype = IF new = col.values THEN col.dtype ELSE "object"]

\* all the value labels of a mapping thrown together, whatever the column
RECURSIVE AllLabels(_, _)
AllLabels(value_labels, cols) ==
    IF cols = {} THEN <<>>
    ELSE LET c == CHOOSE x \in cols : TRUE
         IN  value_labels[c] @@ AllLabels(value_labels, cols \ {c})

\* variant that applies every label to every column
Replace_anycolumn(t, value_labels) ==
    [j \in 1..Len(t) |->
        ReplaceColumn(t[j], AllLabels(value_labels, DOMAIN value_labels))]

\* df.replace(value_labels) with value_labels a mapping
\* column name -> (encoded value -> label)
Replace(t, value_labels) ==
    [j \in 1..Len(t) |->
        IF t[j].name \in DOMAIN value_labels
        THEN ReplaceColumn(t[j], value_labels[t[j].name])
        ELSE t[j]]

\* variant of the test in CreateProcessedDataframe that lets every table in
NeedsLabels_all(name) == TRUE

\* the test `name != "marco_georreferenciacion"`
NeedsLabels(name) == name # "marco_georreferenciacion"

----------------------------------------------------------------------------
(* Values of the variables a specification does not use *)

IdlePipeline ==
    /\ folder = <<>>
    /\ pending = {}
    /\ dfs = <<>>
    /\ decoded = <<>>
    /\ aggregated = NoValue
    /\ dictionary_parser = "none"
    /\ todo = <<>>
    /\ calls = {}
    /\ returned = NoValue
    /\ raised = "none"

IdleMap ==
    /\ segments = <<>>
    /\ filename = <<>>
    /\ dataframe_name = "none"
    /\ record_name = "none"
    /\ schema_name = "none"

IdleClean ==
    /\ df = "none"
    /\ clean1 = "none"
    /\ clean2 = "none"

----------------------------------------------------------------------------
(* The Record Type Mapper on its own: file names built from at most         *)
(* MaxSegments pieces, then MapDataframeName and MapRecordName applied.    *)

SegmentPool ==
    {VIV, HOG, FALL, PER, MGN,
     <<"0","5">>, <<"9","Z","Z">>, <<"1","v","i","v">>, <<>>,
     <<"M","G","N",".","D","T","A">>}

SegmentLists ==
    UNION {[1..n -> SegmentPool] : n \in 1..MaxSegments}

RecordNameArgs == RecordTypes \cup {"municipios"}

InitMap ==
    /\ pc = "start"
    /\ segments \in SegmentLists
    /\ filename = Join(segments, "_")
    /\ record_name \in RecordNameArgs
    /\ dataframe_name = "none"
    /\ schema_name = "none"
    /\ updateDtype = "object"
    /\ IdlePipeline
    /\ IdleClean

CallMapDataframeName ==
    /\ pc = "start"
    /\ dataframe_name' = MapDataframeName(filename)
    /\ pc' = "named"
    /\ UNCHANGED <<segments, filename, record_name, schema_name, updateDtype>>
    /\ UNCHANGED pipelineVars
    /\ UNCHANGED cleanVars

CallMapRecordName ==
    /\ pc = "named"
    /\ schema_name' = MapRecordName(record_name)
    /\ pc' = "looked_up"
    /\ UNCHANGED <<segments, filename, record_name, dataframe_name, updateDtype>>
    /\ UNCHANGED pipelineVars
    /\ UNCHANGED cleanVars

NextMap == CallMapDataframeName \/ CallMapRecordName

SpecMap == InitMap /\ [][NextMap]_vars

----------------------------------------------------------------------------
(* The Table Cleaner on its own: CleanDataframe applied to a table, and    *)
(* applied again to its own result.                                        *)

\* the dtypes DataFrame.update can leave in a float64 column it has written
\* to; which one depends on the pandas release, so every run draws one
UpdateDtypes == {"object", "float64", "Float64"}

\* column names of the input frames: lower, upper and mixed case, with and
\* without letters beyond a-z, and no two with the same upper-case form
NamePool ==
    << <<"e","s","t","r","a","t","o">>, <<"s","t","r","a","ß","e">>,
       <<"A","ñ","o">>, <<"U","_","D","P","T","O">> >>

CellsOf(dtype) ==
    IF dtype = "float64" THEN {<<"float", 2>>, <<"float", 3>>, <<"float", 4>>, NaN}
    ELSE IF dtype = "float32" THEN {<<"float", 3>>}
    ELSE IF dtype = "int64" THEN {<<"int", 7>>}
    ELSE {<<"str", "a">>}

InputDtypes == {"float64", "float32", "int64", "object"}

\* the columns of r rows that may carry the name nm
ColumnsFor(nm, r) ==
    UNION {{[name |-> nm, dtype |-> d, values |-> v] : v \in [1..r -> CellsOf(d)]}
           : d \in InputDtypes}

\* the frames of k columns and r rows
FramesOf(k, r) ==
    {t \in [1..k -> UNION {ColumnsFor(NamePool[j], r) : j \in 1..k}] :
        \A j \in 1..k : t[j].name = NamePool[j]}

InputFrames ==
    UNION {FramesOf(k, r) : k \in 0..MaxColumns, r \in 0..MaxRows}

InitClean ==
    /\ pc = "df"
    /\ df \in InputFrames
    /\ updateDtype \in UpdateDtypes
    /\ clean1 = "none"
    /\ clean2 = "none"
    /\ IdlePipeline
    /\ IdleMap

CleanFirst ==
    /\ pc = "df"
    /\ clean1' = CleanDataframe(df, updateDtype)
    /\ pc' = "clean1"
    /\ UNCHANGED <<df, clean2, updateDtype>>
    /\ UNCHANGED pipelineVars
    /\ UNCHANGED mapVars

CleanSecond ==
    /\ pc = "clean1"
    /\ clean1.raised = "none"
    /\ clean2' = CleanDataframe(clean1.value, updateDtype)
    /\ pc' = "clean2"
    /\ UNCHANGED <<df, clean1, updateDtype>>
    /\ UNCHANGED pipelineVars
    /\ UNCHANGED mapVars

NextClean == CleanFirst \/ CleanSecond

SpecClean == InitClean /\ [][NextClean]_vars

----------------------------------------------------------------------------
(* The folders the pipeline is run on.  Territory i is the entry "0i_X";   *)
(* its archive has one of the shapes below and carries the value v in the  *)
(* float column of every table.                                            *)

MaxValue == 2         \* encoded values 1..MaxValue occur in the data

DigitChar == <<"1","2","3","4","5","6","7","8","9">>

TerritoryName(i) == <<"0", DigitChar[i], "_", "X">>

NoiseNames == {<<"1","_","X">>, <<"R","E","A","D","M","E">>, <<"0","1","X","_">>}

Codes == <<VIV, HOG, FALL, PER, MGN>>

ESTRATO == <<"E","S","T","R","A","T","O">>
U_DPTO == <<"U","_","D","P","T","O">>
TIPO == <<"T","I","P","O">>
AREA == <<"A","R","E","A">>

\* what pd.read_stata gives for the file of record type n of territory i
RawFrame(i, n, cells) ==
    << [name |-> Lower(ESTRATO), dtype |-> "float64", values |-> cells],
       [name |-> Lower(U_DPTO), dtype |-> "object",
        values |-> [r \in 1..Len(cells) |-> <<"str", DigitChar[i]>>]],
       [name |-> Lower(TIPO), dtype |-> "object",
        values |-> [r \in 1..Len(cells) |-> <<"str", KeyOrder[n]>>]] >>

DataFile(i, n, cells) ==
    [name |-> <<"C","_">> \o Codes[n] \o <<"_">> \o <<"0", DigitChar[i]>>
              \o <<".","D","T","A">>,
     data |-> RawFrame(i, n, cells)]

Inner(n, files) ==
    [name |-> Codes[n] \o <<"_","D","T","A",".","z","i","p">>, zip |-> TRUE,
     files |-> files]

ReadmeEntry ==
    [name |-> <<"Ñ",".","t","x","t">>, zip |-> FALSE,
     files |-> << [name |-> <<"n","o","t","e">>, data |-> EmptyFrame] >>]

UnknownFile == [name |-> <<"C","_","9","Z","Z","_","0","1">>, data |-> EmptyFrame]

SplitEntries(i, v) ==
    [n \in 1..5 |-> Inner(n, << DataFile(i, n, << <<"float", 2 * v>> >>) >>)]

RECURSIVE Without(_, _)
Without(seq, n) ==
    IF Len(seq) = 0 THEN <<>>
    ELSE IF n = 1 THEN Tail(seq)
    ELSE <<seq[1]>> \o Without(Tail(seq), n - 1)

\* split: one nested archive per record type; single: one nested archive
\* with the five files, next to an entry that is not selected; shadowed:
\* names carried twice, the entry 5PER_DTA.zip (the first with a file of
\* unknown code) and the file C_1VIV_.. of the first nested archive (the
\* first with a float that is no integer); shadowdrop: two entries named
\* 1VIV_DTA.zip, the last one empty; unknown, nounderscore: a file name that
\* does not map; fraction: a float that is no integer; empty: no selected
\* entry; lacks5: no MGN file; badinner: a selected entry that is no zip
\* archive; notzip, directory: the path itself
Shapes == {"split", "single", "shadowed", "shadowdrop", "unknown",
           "nounderscore", "fraction", "empty", "lacks5", "badinner",
           "notzip", "directory"}

TerritoryArchive(i, shape, v) ==
    CASE shape = "split" ->
           [kind |-> "zip", entries |-> SplitEntries(i, v)]
      [] shape = "single" ->
           [kind |-> "zip",
            entries |-> << ReadmeEntry,
                           [name |-> <<"A","_","D","T","A",".","Z","I","P">>,
                            zip |-> TRUE,
                            files |-> [n \in 1..5 |->
                                DataFile(i, n, << <<"float", 2 * v>> >>)]] >>]
      [] shape = "shadowed" ->
           [kind |-> "zip",
            entries |->
                [SplitEntries(i, v) EXCEPT
                    ![1] = Inner(1, << DataFile(i, 1, << <<"float", 2 * v + 1>> >>),
                                       DataFile(i, 1, << <<"float", 2 * v>> >>) >>),
                    ![4] = Inner(4, << UnknownFile >>)]
                \o << Inner(4, << DataFile(i, 4, << <<"float", 2 * v>>, NaN >>) >>) >>]
      [] shape = "shadowdrop" ->
           [kind |-> "zip",
            entries |-> SplitEntries(i, v) \o << Inner(1, <<>>) >>]
      [] shape = "unknown" ->
           [kind |-> "zip",
            entries |-> SplitEntries(i, v) \o
                << [name |-> <<"Z","_","d","t","a",".","z","i","p">>, zip |-> TRUE,
                    files |-> << UnknownFile >>] >>]
      [] shape = "nounderscore" ->
           [kind |-> "zip",
            entries |-> << [name |-> <<"Z","_","d","t","a",".","z","i","p">>,
                            zip |-> TRUE,
                            files |-> << [name |-> <<"R","E","A","D","M","E">>,
                                          data |-> EmptyFrame] >>] >>
                        \o SplitEntries(i, v)]
      [] shape = "fraction" ->
           [kind |-> "zip",
            entries |-> << Inner(1, << DataFile(i, 1, << <<"float", 2 * v + 1>> >>) >>) >>
                        \o Tail(SplitEntries(i, v))]
      [] shape = "empty" ->
           [kind |-> "zip", entries |-> << ReadmeEntry >>]
      [] shape = "lacks5" ->
           [kind |-> "zip", entries |-> Without(SplitEntries(i, v), 5)]
      [] shape = "badinner" ->
           [kind |-> "zip",
            entries |-> [SplitEntries(i, v) EXCEPT ![3] =
                            [name |-> Codes[3] \o <<"_","D","T","A",".","z","i","p">>,
                             zip |-> FALSE, files |-> <<>>]]]
      [] shape = "notzip" ->
           [kind |-> "file", entries |-> <<>>]
      [] OTHER ->
           [kind |-> "dir", entries |-> <<>>]

NoiseArchive == [kind |-> "file", entries |-> <<>>]

\* a territory is absent, or has the shape split with any value, or another
\* shape with the value 1
TerritoryChoices ==
    {<<"absent", 0>>} \cup ({"split"} \X (1..MaxValue))
        \cup ((Shapes \ {"split"}) \X {1})

FolderOf(choice, noise) ==
    LET present == {i \in 1..MaxTerritories : choice[i][1] # "absent"}
        names == {TerritoryName(i) : i \in present}
                 \cup (IF noise THEN NoiseNames ELSE {})
    IN  [nm \in names |->
            IF \E i \in present : nm = TerritoryName(i)
            THEN LET i == CHOOSE x \in present : nm = TerritoryName(x)
                 IN  TerritoryArchive(i, choice[i][1], choice[i][2])
            ELSE NoiseArchive]

\* the folders: the empty one, and every choice of territories next to the
\* entries that do not match the pattern
Folders ==
    {FolderOf(choice, TRUE) : choice \in [1..MaxTerritories -> TerritoryChoices]}
        \cup {<<>>}

\* the value labels a dictionary may hold for one schema identifier: none,
\* one label, or labels under a numeric key, a text key and a column the
\* tables do not have
ValueLabelChoices ==
    << <<>>,
       (ESTRATO :> (<<"int", 1>> :> <<"str", "Estrato bajo">>)),
       (ESTRATO :> ((<<"int", 1>> :> <<"str", "Estrato bajo">>) @@
                    (<<"str", "1">> :> <<"str", "Uno">>))) @@
       (AREA :> (<<"int", 2>> :> <<"str", "Rural">>)) >>

Schemas == {"REGVIV", "REGHOG", "REGFALL", "REGPER"}

SchemaOrder == <<"REGVIV", "REGHOG", "REGFALL", "REGPER">>

\* the dictionaries: every schema identifier meets every choice
Dictionaries ==
    {[s \in Schemas |->
        LET n == CHOOSE x \in 1..4 : SchemaOrder[x] = s
        IN  ValueLabelChoices[((n + k) % 3) + 1]] : k \in 0..2}

----------------------------------------------------------------------------
(* The pipeline: CreateProcessedDataframe(folder, dictionary archive) *)

Init ==
    /\ pc = "CreateProcessedDataframe"
    /\ folder \in Folders
    /\ updateDtype \in UpdateDtypes
    /\ pending = {}
    /\ dfs = <<>>
    /\ decoded = <<>>
    /\ aggregated = NoValue
    /\ dictionary_parser = "none"
    /\ todo = <<>>
    /\ calls = {}
    /\ returned = NoValue
    /\ raised = "none"
    /\ IdleMap
    /\ IdleClean

\* ReadDataFolder up to the loop: the five empty tables and the glob
ReadDataFolder_begin ==
    /\ pc = "CreateProcessedDataframe"
    /\ dfs' = EmptyTables
    /\ pending' = {nm \in DOMAIN folder : GlobMatch(nm)}
    /\ pc' = "ReadDataFolder"
    /\ UNCHANGED <<folder, decoded, aggregated, dictionary_parser, todo, calls,
                   returned, raised, updateDtype>>
    /\ UNCHANGED mapVars
    /\ UNCHANGED cleanVars

\* one iteration of `for path in pathlist`, the generator yielding in any order
ReadDataFolder_visit ==
    /\ pc = "ReadDataFolder"
    /\ \E path \in pending :
        \E current_dfs \in {ReadZippedStataData(folder[path], updateDtype)} :
            /\ pending' = pending \ {path}
            /\ IF current_dfs.raised # "none"
               THEN /\ raised' = current_dfs.raised
                    /\ pc' = "raised"
                    /\ UNCHANGED <<dfs, decoded>>
               ELSE LET n == KeysBeforeMissing(current_dfs.value)
                    IN  /\ decoded' = (path :> current_dfs.value) @@ decoded
                        /\ dfs' = ConcatKeys(dfs, current_dfs.value, n)
                        /\ IF n < Len(KeyOrder)
                           THEN raised' = "KeyError" /\ pc' = "raised"
                           ELSE UNCHANGED <<raised, pc>>
    /\ UNCHANGED <<folder, aggregated, dictionary_parser, todo, calls, returned,
                   updateDtype>>
    /\ UNCHANGED mapVars
    /\ UNCHANGED cleanVars

\* the traversal is exhausted: ReadDataFolder returns dfs
ReadDataFolder_return ==
    /\ pc = "ReadDataFolder"
    /\ pending = {}
    /\ aggregated' = dfs
    /\ pc' = "ReadCSProDct"
    /\ UNCHANGED <<folder, pending, dfs, decoded, dictionary_parser, todo, calls,
                   returned, raised, updateDtype>>
    /\ UNCHANGED mapVars
    /\ UNCHANGED cleanVars

\* the dictionary archive is read and parsed
ReadCSProDct ==
    /\ pc = "ReadCSProDct"
    /\ \E d \in Dictionaries : dictionary_parser' = d
    /\ todo' = KeyOrder
    /\ pc' = "labels"
    /\ UNCHANGED <<folder, pending, dfs, decoded, aggregated, calls, returned,
                   raised, updateDtype>>
    /\ UNCHANGED mapVars
    /\ UNCHANGED cleanVars

\* the archive has no Diccionario_datosCNPV.dcf: ZipFile.open raises
ReadCSProDct_missing ==
    /\ pc = "ReadCSProDct"
    /\ raised' = "KeyError"
    /\ pc' = "raised"
    /\ UNCHANGED <<folder, pending, dfs, decoded, aggregated, dictionary_parser,
                   todo, calls, returned, updateDtype>>
    /\ UNCHANGED mapVars
    /\ UNCHANGED cleanVars

\* one iteration of `for name, df in dfs.items()`
ApplyLabels ==
    /\ pc = "labels"
    /\ todo # <<>>
    /\ LET name == Head(todo)
           schema == MapRecordName(name)
       IN  IF ~NeedsLabels(name)
           THEN /\ todo' = Tail(todo)
                /\ UNCHANGED <<dfs, calls, raised, pc>>
           ELSE IF schema.raised # "none"
           THEN /\ calls' = calls \cup {<<"GetValueLabels", name>>,
                                        <<"MapRecordName", name>>}
                /\ raised' = schema.raised
                /\ pc' = "raised"
                /\ UNCHANGED <<dfs, todo>>
           ELSE /\ calls' = calls \cup {<<"GetValueLabels", name>>,
                                        <<"MapRecordName", name>>,
                                        <<"get_value_labels", schema.value>>}
                /\ dfs' = [dfs EXCEPT ![name] =
                              Replace(dfs[name], dictionary_parser[schema.value])]
                /\ todo' = Tail(todo)
                /\ UNCHANGED <<raised, pc>>
    /\ UNCHANGED <<folder, pending, decoded, aggregated, dictionary_parser,
                   returned, updateDtype>>
    /\ UNCHANGED mapVars
    /\ UNCHANGED cleanVars

\* `return dfs` of CreateProcessedDataframe
Return ==
    /\ pc = "labels"
    /\ todo = <<>>
    /\ returned' = dfs
    /\ pc' = "done"
    /\ UNCHANGED <<folder, pending, dfs, decoded, aggregated, dictionary_parser,
                   todo, calls, raised, updateDtype>>
    /\ UNCHANGED mapVars
    /\ UNCHANGED cleanVars

Next ==
    \/ ReadDataFolder_begin
    \/ ReadDataFolder_visit
    \/ ReadDataFolder_return
    \/ ReadCSProDct
    \/ ReadCSProDct_missing
    \/ ApplyLabels
    \/ Return

Spec == Init /\ [][Next]_vars

----------------------------------------------------------------------------
(* Properties of the Record Type Mapper (SpecMap) *)

GEOREF == "marco_georreferenciacion"

\* C1: MapDataframeName looks up the second underscore-delimited segment of
\* the file name: 1VIV, 2HOG, 3FALL, 5PER and MGN give viviendas, hogares,
\* fallecidos, personas and marco_georreferenciacion; any other second
\* segment raises and gives no record type.
C1_MapDataframeName ==
    (pc # "start" /\ Len(segments) >= 2) =>
        /\ segments[2] = VIV => dataframe_name = Ok("viviendas")
        /\ segments[2] = HOG => dataframe_name = Ok("hogares")
        /\ segments[2] = FALL => dataframe_name = Ok("fallecidos")
        /\ segments[2] = PER => dataframe_name = Ok("personas")
        /\ segments[2] = MGN => dataframe_name = Ok(GEOREF)
        /\ segments[2] \notin {VIV, HOG, FALL, PER, MGN} =>
              /\ dataframe_name.raised # "none"
              /\ dataframe_name.value = "none"

C1_Witness ==
    /\ pc = "named"
    /\ Len(segments) = 3
    /\ segments[1] = PER
    /\ segments[2] = FALL
    /\ dataframe_name = Ok("fallecidos")

\* C2: MapRecordName gives REGVIV, REGHOG, REGFALL and REGPER for viviendas,
\* hogares, fallecidos and personas, and raises, giving no schema
\* identifier, for marco_georreferenciacion.
C2_MapRecordName ==
    pc = "looked_up" =>
        /\ record_name = "viviendas" => schema_name = Ok("REGVIV")
        /\ record_name = "hogares" => schema_name = Ok("REGHOG")
        /\ record_name = "fallecidos" => schema_name = Ok("REGFALL")
        /\ record_name = "personas" => schema_name = Ok("REGPER")
        /\ record_name = GEOREF =>
              /\ schema_name.raised # "none"
              /\ schema_name.value = "none"

C2_Witness ==
    /\ pc = "looked_up"
    /\ record_name = GEOREF
    /\ schema_name.raised = "KeyError"

----------------------------------------------------------------------------
(* Properties of the Table Cleaner (SpecClean) *)

\* C8: CleanDataframe is idempotent: cleaning a cleaned table succeeds and
\* gives the same column names, column types and cell values.
C8_CleanIdempotent ==
    pc = "clean2" =>
        /\ clean2.raised = "none"
        /\ Len(clean2.value) = Len(clean1.value)
        /\ \A j \in 1..Len(clean1.value) :
              /\ clean2.value[j].name = clean1.value[j].name
              /\ clean2.value[j].dtype = clean1.value[j].dtype
              /\ clean2.value[j].values = clean1.value[j].values

C8_Witness ==
    /\ pc = "clean2"
    /\ Len(df) = 2
    /\ df[1].dtype = "float64"
    /\ df[1].values = << <<"float", 2>>, NaN >>
    /\ df[2].dtype = "object"
    /\ clean1.value[1].name = <<"E","S","T","R","A","T","O">>
    /\ clean1.value[2].name = <<"S","T","R","A","S","S","E">>
    /\ clean2.raised = "none"

\* C9: after CleanDataframe every column that was float64 has the nullable
\* integer type, with each missing value as null and each present value as
\* its integer; every other column keeps type and values; every column name
\* is the upper-case form of the original.
C9_CleanConvertsFloat64 ==
    (pc = "clean1" /\ clean1.raised = "none") =>
        /\ Len(clean1.value) = Len(df)
        /\ \A j \in 1..Len(df) :
              /\ clean1.value[j].name = Upper(df[j].name)
              /\ IF df[j].dtype = "float64"
                 THEN /\ clean1.value[j].dtype = "Int64"
                      /\ \A i \in 1..Len(df[j].values) :
                            clean1.value[j].values[i] =
                                IF IsMissing(df[j].values[i]) THEN NA
                                ELSE <<"int", df[j].values[i][2] \div 2>>
                 ELSE /\ clean1.value[j].dtype = df[j].dtype
                      /\ clean1.value[j].values = df[j].values

----------------------------------------------------------------------------
(* Properties of the pipeline (Spec) *)

\* the rows of a table as a bag of mappings column name -> cell
RowAt(t, i) ==
    [nm \in {t[j].name : j \in 1..Len(t)} |-> ColumnOf(t, nm).values[i]]

RECURSIVE RowsUpTo(_, _)
RowsUpTo(t, n) ==
    IF n = 0 THEN EmptyBag ELSE RowsUpTo(t, n - 1) (+) SetToBag({RowAt(t, n)})

RowBag(t) == RowsUpTo(t, NRows(t))

RECURSIVE UnionOfRows(_, _)
UnionOfRows(paths, key) ==
    IF paths = {} THEN EmptyBag
    ELSE LET p == CHOOSE x \in paths : TRUE
         IN  RowBag(decoded[p][key]) (+) UnionOfRows(paths \ {p}, key)

RECURSIVE SumOfRows(_, _)
SumOfRows(paths, key) ==
    IF paths = {} THEN 0
    ELSE LET p == CHOOSE x \in paths : TRUE
         IN  NRows(decoded[p][key]) + SumOfRows(paths \ {p}, key)

\* the folder entries that are territory archives
Territories == {TerritoryName(i) : i \in 1..MaxTerritories} \cap DOMAIN folder

\* the entries of an archive whose name ends in dta.zip
SelectedEntries(archive) ==
    {e \in 1..Len(archive.entries) :
        EndsWith(Lower(archive.entries[e].name), DTA_ZIP)}

FilesOf(archive, es) ==
    UNION {{archive.entries[e].files[f] : f \in 1..Len(archive.entries[e].files)} :
            e \in {x \in es : archive.entries[x].zip}}

\* the nested files of the selected entries
SelectedFiles(archive) == FilesOf(archive, SelectedEntries(archive))

\* the nested files of the selected entries no later entry shares its name with
FoundFiles(archive) ==
    FilesOf(archive,
        {e \in SelectedEntries(archive) :
            \A l \in 1..Len(archive.entries) :
                l > e => archive.entries[l].name # archive.entries[e].name})

HasUnmappedName(archive) ==
    /\ archive.kind = "zip"
    /\ \E parts \in {Split(file.name, "_") : file \in SelectedFiles(archive)} :
          Len(parts) < 2 \/ parts[2] \notin {VIV, HOG, FALL, PER, MGN}

\* the record types the decoder finds a data file for in a territory archive
Found(archive) ==
    {MapDataframeName_dict[parts[2]] :
        parts \in {x \in {Split(file.name, "_") : file \in FoundFiles(archive)} :
            Len(x) >= 2 /\ x[2] \in DOMAIN MapDataframeName_dict}}

\* C3: in the label substitution the georeference table is the one the
\* aggregation produced, and neither MapRecordName nor the value-label lookup
\* is invoked for it; the lookup is invoked for each of the other four.
C3_GeoreferenceUntouched ==
    /\ <<"GetValueLabels", GEOREF>> \notin calls
    /\ <<"MapRecordName", GEOREF>> \notin calls
    /\ \A c \in calls : c[1] = "get_value_labels" => c[2] \in Schemas
    /\ pc \in {"labels", "done"} => dfs[GEOREF] = aggregated[GEOREF]
    /\ HasValue(returned) =>
          /\ returned[GEOREF] = aggregated[GEOREF]
          /\ \A s \in Schemas : <<"get_value_labels", s>> \in calls

C3_Witness ==
    /\ pc = "done"
    /\ NRows(returned[GEOREF]) = 2
    /\ returned["viviendas"] # aggregated["viviendas"]
    /\ Cardinality(calls) = 12

\* C4: for every table but the georeference one, a cell of column c holding v
\* holds label L afterwards if the value labels of the table's schema have an
\* entry c -> v -> L, and v otherwise; rows and columns stay as they were.
C4_SparseSubstitution ==
    HasValue(returned) =>
        \A name \in RecordTypes \ {GEOREF} :
            LET before == aggregated[name]
                after == returned[name]
                labels == dictionary_parser[MapRecordName_dict[name]]
            IN  /\ Len(after) = Len(before)
                /\ \A j \in 1..Len(before) :
                      /\ after[j].name = before[j].name
                      /\ Len(after[j].values) = Len(before[j].values)
                      /\ \A i \in 1..Len(before[j].values) :
                            LET c == before[j].name
                                v == before[j].values[i]
                            IN  IF /\ c \in DOMAIN labels
                                   /\ \E key \in DOMAIN labels[c] : Matches(key, v)
                                THEN \E key \in DOMAIN labels[c] :
                                        /\ Matches(key, v)
                                        /\ after[j].values[i] = labels[c][key]
                                ELSE after[j].values[i] = v

C4_Witness ==
    /\ pc = "done"
    /\ AREA \in DOMAIN dictionary_parser["REGVIV"]
    /\ \E j \in 1..Len(returned["viviendas"]) :
          /\ returned["viviendas"][j].name = ESTRATO
          /\ Len(returned["viviendas"][j].values) = 2
          /\ \E i \in 1..2 : returned["viviendas"][j].values[i] = <<"str", "Estrato bajo">>
          /\ \E i \in 1..2 : IsNum(returned["viviendas"][j].values[i])
    /\ \E j \in 1..Len(returned["viviendas"]) :
          /\ returned["viviendas"][j].name = U_DPTO
          /\ \E i \in 1..2 : returned["viviendas"][j].values[i] = <<"str", "1">>

\* C5: ReadDataFolder returns, for each of the five record types, a table
\* whose rows are the multiset union of the rows decoded for that record type
\* from all the matching territory archives, whatever the order of the visits.
C5_AggregateIsUnion ==
    HasValue(aggregated) =>
        /\ DOMAIN decoded = Territories
        /\ DOMAIN aggregated = RecordTypes
        /\ \A key \in RecordTypes :
              /\ RowBag(aggregated[key]) = UnionOfRows(Territories, key)
              /\ NRows(aggregated[key]) = SumOfRows(Territories, key)

C5_Witness ==
    /\ HasValue(aggregated)
    /\ Cardinality(Territories) = 2
    /\ \A p \in Territories : \A key \in RecordTypes : NRows(decoded[p][key]) = 1
    /\ \A key \in RecordTypes : NRows(aggregated[key]) = 2

\* C6: on a folder without an entry matching the two-digit pattern
\* ReadDataFolder ends without error and returns exactly the five record
\* type keys, each bound to an empty table.
C6_EmptyFolder ==
    Territories = {} =>
        /\ pc = "raised" => HasValue(aggregated)
        /\ pc = "ReadDataFolder" => pending = {}
        /\ HasValue(aggregated) =>
              /\ DOMAIN aggregated = RecordTypes
              /\ \A key \in RecordTypes :
                    aggregated[key] = EmptyFrame /\ NRows(aggregated[key]) = 0

C6_Witness ==
    /\ Territories = {}
    /\ DOMAIN folder = NoiseNames
    /\ pc = "ReadCSProDct"
    /\ aggregated = EmptyTables

\* C7: when a nested entry of a selected inner archive of a matching
\* territory archive has a name MapDataframeName does not map, the run ends
\* in that error once the archive is visited, and no mapping of tables is
\* ever returned, by ReadDataFolder or by CreateProcessedDataframe.
C7_FailFast ==
    \A path \in Territories :
        \/ /\ ~HasValue(returned)
           /\ ~HasValue(aggregated)
           /\ pc \notin {"ReadCSProDct", "labels", "done"}
           /\ (pc # "CreateProcessedDataframe" /\ path \notin pending) =>
                 (pc = "raised" /\ raised \in {"KeyError", "IndexError"})
        \/ ~HasUnmappedName(folder[path])

\* C10: the mapping ReadZippedStataData returns holds only the record types
\* of the nested files found, and ReadDataFolder reads all five keys of it:
\* a territory archive without a data file for some record type ends the
\* aggregation in an error, and no tables are returned.
C10_MissingRecordType ==
    \A path \in DOMAIN decoded : \A found \in {Found(folder[path])} :
        /\ DOMAIN decoded[path] = found
        /\ found # RecordTypes =>
              /\ pc = "raised"
              /\ raised = "KeyError"
              /\ aggregated = NoValue
              /\ returned = NoValue

C10_Witness ==
    /\ pc = "raised"
    /\ raised = "KeyError"
    /\ \E path \in DOMAIN decoded : Found(folder[path]) = {}
    /\ \E path \in DOMAIN decoded : Found(folder[path]) = RecordTypes
    /\ NRows(dfs["personas"]) = 2
    /\ returned = NoValue

====
